---- MODULE Spec2Model ----
(***************************************************************************)
(* Model of the request handler of docker-icons-api (src/index.ts).        *)
(*                                                                         *)
(* Every inbound request runs the async function `fetch` of Bun.serve as   *)
(* its own task.  A task runs without interruption up to its next `await`; *)
(* at an await other tasks may run.  Each action below is the code between *)
(* two awaits of one request, together with the outcome of the awaited     *)
(* external call (store query, browser operation, HTTP fetch), which is    *)
(* drawn from the outcomes that call can have: a value, or an exception.   *)
(***************************************************************************)
EXTENDS Integers, Sequences, FiniteSets, TLC

\* ------------------------------------------------------------------ bounds

\* Number of requests the server receives in one behaviour of Spec, where a
\* request carries any method and any path of Paths.
MaxReq == 2

\* Number of requests the server receives in one behaviour of SpecRace, where
\* every request is a GET of an image of a namespace the table can hold.
MaxRace == 3

\* Longest namespace and longest repository name handed to the parser in
\* SpecParse.
MaxSegLen == 3

Reqs == 1..(IF MaxReq > MaxRace THEN MaxReq ELSE MaxRace)

\* ------------------------------------------------------------ plain values

\* SQL NULL / JavaScript null.
NULL == "NULL"

\* Text is modelled as a sequence of one-character strings, so that the
\* regular expression can be evaluated on it.
Alnum ==
  { "a","b","c","d","e","f","g","h","i","j","k","l","m","n","o","p","q","r",
    "s","t","u","v","w","x","y","z","0","1","2","3","4","5","6","7","8","9" }

Separators == { "_", "-" }

\* The namespace of an image without one (match group undefined -> null).
\* A captured namespace is never empty, so the empty text stands for null.
NoNamespace == << >>

Methods == { "GET", "POST" }

HealthPath == << "/","h","e","a","l","t","h" >>

\* The url.pathname values the requests of Spec carry.
Paths ==
  { HealthPath,
    << "/","r","e","d","i","s",".","p","n","g" >>,
    << "/","l","i","b","r","a","r","y","/","r","e","d","i","s",".","p","n","g" >>,
    << "/","a","c","m","e","/","w","i","d","g","e","t",".","p","n","g" >>,
    << "/","F","o","o","_","B","a","r","!",".","p","n","g" >> }

\* The url.pathname values the requests of SpecRace carry: two repositories
\* of one namespace.
RacePaths ==
  { << "/","a","c","m","e","/","w","i","d","g","e","t",".","p","n","g" >>,
    << "/","a","c","m","e","/","o","t","h","e","r",".","p","n","g" >> }

\* ------------------------------------------------- the identifier grammar

\* [a-z0-9]+(?:[_-][a-z0-9]+)*
MatchSegment(s) ==
  /\ Len(s) > 0
  /\ \A i \in 1..Len(s) :
       \/ s[i] \in Alnum
       \/ /\ s[i] \in Separators
          /\ i > 1 /\ i < Len(s)
          /\ s[i-1] \in Alnum
          /\ s[i+1] \in Alnum

NoMatch == [ matched |-> FALSE, namespace |-> NoNamespace, repository |-> << >> ]

\* /^(?:(SEG)\/)?(SEG)\.png$/ applied to `image`: the match with its two
\* groups, or NoMatch.
RegexMatch(image) ==
  LET n == Len(image) IN
  IF n < 5 \/ SubSeq(image, n - 3, n) # << ".","p","n","g" >>
  THEN NoMatch
  ELSE
    LET stem    == SubSeq(image, 1, n - 4)
        slashes == { i \in 1..Len(stem) : stem[i] = "/" }
    IN  IF slashes = {}
        THEN IF MatchSegment(stem)
             THEN [ matched |-> TRUE, namespace |-> NoNamespace, repository |-> stem ]
             ELSE NoMatch
        ELSE IF Cardinality(slashes) = 1
        THEN LET i    == CHOOSE j \in slashes : TRUE
                 ns   == SubSeq(stem, 1, i - 1)
                 repo == SubSeq(stem, i + 1, Len(stem))
             IN  IF MatchSegment(ns) /\ MatchSegment(repo)
                 THEN [ matched |-> TRUE, namespace |-> ns, repository |-> repo ]
                 ELSE NoMatch
        ELSE NoMatch

\* The parser keeping the repository and dropping the namespace group.
parseDockerHubImage_NoNamespace(image) ==
  [ RegexMatch(image) EXCEPT !.namespace = NoNamespace ]

parseDockerHubImage(image) == RegexMatch(image)

\* The characters of the identifiers handed to the parser in SpecParse.
IdChars == { "a", "0" }

\* [a-z0-9]+ up to MaxSegLen characters.
Runs == UNION { [ 1..k -> IdChars ] : k \in 1..MaxSegLen }

\* The names [a-z0-9]+([_-][a-z0-9]+)* of at most n characters, built as the
\* grammar builds them: a run, or a shorter name, a separator and a run.
RECURSIVE Names(_)
Names(n) ==
  IF n < 1 THEN {}
  ELSE { r \in Runs : Len(r) <= n }
       \cup { t[1] \o << t[2] >> \o t[3] :
                t \in { u \in Names(n - 2) \X Separators \X Runs :
                          Len(u[1]) + 1 + Len(u[3]) <= n } }

\* The valid identifiers: an optional namespace and a repository.
Identifiers ==
  [ namespace : Names(MaxSegLen) \cup { NoNamespace }, repository : Names(MaxSegLen) ]

\* '<namespace>/<repository>.png', or '<repository>.png' without a namespace:
\* the text the pattern of lines 7-8 is written for.
Serialize(id) ==
  (IF id.namespace = NoNamespace THEN << >> ELSE id.namespace \o << "/" >>)
    \o id.repository \o << ".", "p", "n", "g" >>

\* url.pathname.substring(1)
Image(p) == Tail(p)

Library == << "l","i","b","r","a","r","y" >>

\* The test of line 168 without its second operand.
IsOfficial_NamespaceOnly(parsed) == parsed.namespace = NoNamespace

\* !parsedImage.namespace || parsedImage.namespace === "library"
IsOfficial(parsed) ==
  parsed.namespace = NoNamespace \/ parsed.namespace = Library

\* Every namespace a request of the model can name: the keys of the table.
Namespaces ==
  { parseDockerHubImage(Image(p)).namespace :
      p \in { q \in Paths \cup RacePaths : parseDockerHubImage(Image(q)).matched } }
  \ { NoNamespace }

\* ------------------------------------------------------------ the `icons` table

\* One row per namespace (namespace is UNIQUE NOT NULL); `exists` tells whether
\* the table holds a row for the key.
NoRow == [ exists |-> FALSE, url |-> NULL, content |-> NULL, content_type |-> NULL,
           updated_at |-> 0 ]

\* The logo addresses the catalog page can show, the bytes an asset fetch can
\* deliver, and the content-type header it can declare (NULL: no header).
LogoUrls == { "https://cdn/x.png" }
Replies ==
  { [ body |-> "b1", header |-> NULL ],
    [ body |-> "b2", header |-> "image/svg+xml" ] }

\* What el.getAttribute("src") can resolve to.
SrcValues == { NULL, "" } \cup LogoUrls

\* Status of the response page.goto resolves to; 0 stands for goto resolving
\* to null, where res?.status() is undefined.
GotoStatuses == { 0, 200, 404 }

\* Status of the reply of the official-logo endpoint.
LibStatuses == { 200, 404 }

SWR == "public, max-age=86400, stale-while-revalidate=604800"
OneDay == "public, max-age=86400"

\* ------------------------------------------------------------------ state

VARIABLES
  store,      \* the icons table: namespace -> row
  now,        \* the clock of the store, which NOW() reads; every write falls at
              \* an instant of its own
  method,     \* req.method of each request
  path,       \* url.pathname of each request
  pc,         \* where each request's task stands (the await it is suspended at)
  browser,    \* the browser each request launched: "none", "open", "closed"
  imageSrc,   \* local imageSrc
  message,    \* local message
  asset,      \* locals buf and contentType
  response,   \* the response each request returned
  fault,      \* the exception an awaited call of the request raised, if any
  queries,    \* history: how many statements the request sent to the store
  after,      \* history: which resolutions of the same namespace had completed
              \* when the request arrived
  upstream,   \* history: the reply of the official-logo endpoint to the request
  ident,      \* an identifier handed to parseDockerHubImage in serialized form
  parsed      \* what parseDockerHubImage returned for it, once called

vars == << store, now, method, path, pc, browser, imageSrc, message, asset,
           response, fault, queries, after, upstream, ident, parsed >>

\* The state of the parser exercised on its own.
parser == << ident, parsed >>

\* The store: the table and its clock.
table == << store, now >>

\* The locals of the handler that live across an await.
locals == << imageSrc, message, asset >>

NoResponse == [ status |-> 0, body |-> NULL, content_type |-> NULL,
                cache_control |-> NULL, allow |-> NULL ]

NoAsset == [ buf |-> NULL, contentType |-> NULL ]

NoFault == [ site |-> "none", kind |-> "none" ]

\* No reply of the official-logo endpoint yet.
NoReply == [ status |-> 0, body |-> NULL, header |-> NULL ]

\* No identifier, and the parser not called.
NoIdent == [ namespace |-> NoNamespace, repository |-> << >> ]
NotParsed == [ called |-> FALSE, result |-> NoMatch ]

\* new Response(body, { status, headers })
Resp(status, body, ctype, cache) ==
  [ status |-> status, body |-> body, content_type |-> ctype,
    cache_control |-> cache, allow |-> NULL ]

\* Response.json({ message }, { status }); the body is written as its one field.
Json(status, msg) == Resp(status, msg, "application/json", NULL)

\* The return sites of the handler.
Returned ==
  { "ret_405", "ret_health", "ret_nomatch", "ret_badimage", "ret_official",
    "ret_hitNeg", "ret_hitPos", "ret_absent", "ret_badGateway", "ret_stored",
    "ret_error" }

Done(r) == pc[r] \in Returned

parsedImage(r) == parseDockerHubImage(Image(path[r]))

\* The namespace of a request that reached the cache lookup.
Ns(r) == parsedImage(r).namespace

\* Whether request r names an image of a namespace the table can hold.
Scoped(r) ==
  /\ pc[r] # "idle"
  /\ method[r] = "GET"
  /\ path[r] # HealthPath
  /\ parsedImage(r).matched
  /\ ~IsOfficial(parsedImage(r))

\* The server after construction, no request received.
InitServer ==
  /\ store = [ ns \in Namespaces |-> NoRow ]
  /\ now = 1
  /\ method = [ r \in Reqs |-> NULL ]
  /\ path = [ r \in Reqs |-> << >> ]
  /\ pc = [ r \in Reqs |-> "idle" ]
  /\ browser = [ r \in Reqs |-> "none" ]
  /\ imageSrc = [ r \in Reqs |-> NULL ]
  /\ message = [ r \in Reqs |-> NULL ]
  /\ asset = [ r \in Reqs |-> NoAsset ]
  /\ response = [ r \in Reqs |-> NoResponse ]
  /\ fault = [ r \in Reqs |-> NoFault ]
  /\ queries = [ r \in Reqs |-> 0 ]
  /\ after = [ r \in Reqs |-> {} ]
  /\ upstream = [ r \in Reqs |-> NoReply ]

Init ==
  /\ InitServer
  /\ ident = NoIdent
  /\ parsed = NotParsed

\* ------------------------------------------------------- steps of a request

\* return response: the task ends and its locals with it.
Return(r, site, resp) ==
  /\ pc' = [ pc EXCEPT ![r] = site ]
  /\ response' = [ response EXCEPT ![r] = resp ]
  /\ imageSrc' = [ imageSrc EXCEPT ![r] = NULL ]
  /\ message' = [ message EXCEPT ![r] = NULL ]
  /\ asset' = [ asset EXCEPT ![r] = NoAsset ]

\* The exception escaping the handler: the task ends without a response.
Catch_Unanswered(r, site, kind) ==
  /\ fault' = [ fault EXCEPT ![r] = [ site |-> site, kind |-> kind ] ]
  /\ pc' = [ pc EXCEPT ![r] = "unanswered" ]
  /\ UNCHANGED << response, locals >>

\* Lines 300-310: an awaited call raised and control passes to the catch clause.
Catch(r, site, kind) ==
  /\ fault' = [ fault EXCEPT ![r] = [ site |-> site, kind |-> kind ] ]
  /\ Return(r, "ret_error", Json(500, "Internal server error"))

\* The task is suspended at its next await.
Await(r, next) ==
  /\ pc' = [ pc EXCEPT ![r] = next ]
  /\ UNCHANGED response

\* A statement is sent to the store.
Query(r) == queries' = [ queries EXCEPT ![r] = @ + 1 ]

\* Which fresh resolutions of the namespace of path p have returned so far.
Completed(p) ==
  LET named == parseDockerHubImage(Image(p)) IN
  IF ~named.matched THEN {}
  ELSE
    { k \in { "positive", "negative", "undelivered" } :
        \E q \in Reqs :
          /\ Scoped(q)
          /\ Ns(q) = named.namespace
          /\ pc[q] = (CASE k = "positive" -> "ret_stored"
                        [] k = "negative" -> "ret_absent"
                        [] OTHER -> "ret_badGateway") }

\* The method test letting every method through.
MethodAllowed_Any(m) == TRUE

\* Line 124: method !== "GET" is refused.
MethodAllowed(m) == m = "GET"

\* Lines 116-186: a request arrives and runs to its first await.
Start(r, m, p) ==
  /\ pc[r] = "idle"
  /\ \A q \in Reqs : q < r => pc[q] # "idle"
  /\ method' = [ method EXCEPT ![r] = m ]
  /\ path' = [ path EXCEPT ![r] = p ]
  /\ after' = [ after EXCEPT ![r] = IF m = "GET" THEN Completed(p) ELSE {} ]
  /\ IF ~MethodAllowed(m)
     THEN Return(r, "ret_405",
                 [ Resp(405, "Method Not Allowed", "text/plain", NULL)
                     EXCEPT !.allow = "GET" ])
     ELSE IF p = HealthPath
     THEN Await(r, "health") /\ UNCHANGED locals
     ELSE IF ~RegexMatch(Image(p)).matched
     THEN Return(r, "ret_nomatch", Json(404, "page not found"))
     ELSE IF ~parseDockerHubImage(Image(p)).matched
     THEN Return(r, "ret_badimage",
                 Json(400, "the image is not a valid docker hub image"))
     ELSE IF IsOfficial(parseDockerHubImage(Image(p)))
     THEN Await(r, "libFetch") /\ UNCHANGED locals
     ELSE Await(r, "select") /\ UNCHANGED locals
  /\ UNCHANGED << table, browser, fault, queries, upstream, parser >>

\* Lines 137-140: await sql`SELECT true`
Health(r) ==
  /\ pc[r] = "health"
  /\ Query(r)
  /\ \/ /\ Return(r, "ret_health", Json(200, "SQL: true"))
        /\ UNCHANGED fault
     \/ Catch(r, "sql", "store")
  /\ UNCHANGED << table, method, path, browser, after, upstream, parser >>

\* The official branch handing the upstream status on to the client.
OfficialResponse_PassesStatus(fresh) ==
  [ Resp(200, fresh.body,
         IF fresh.header = NULL THEN "image/png" ELSE fresh.header,
         OneDay) EXCEPT !.status = fresh.status ]

\* Lines 171-176: new Response(await fresh.arrayBuffer(), { headers }); no status
\* is given, so it is 200, and fresh.ok is not consulted.
OfficialResponse(fresh) ==
  Resp(200, fresh.body,
       IF fresh.header = NULL THEN "image/png" ELSE fresh.header,
       OneDay)

\* Lines 169-178: await fetch(libUrl), await fresh.arrayBuffer()
LibFetch(r) ==
  /\ pc[r] = "libFetch"
  /\ \/ \E st \in LibStatuses, reply \in Replies :
          LET fresh == [ status |-> st, body |-> reply.body, header |-> reply.header ]
          IN  /\ upstream' = [ upstream EXCEPT ![r] = fresh ]
              /\ Return(r, "ret_official", OfficialResponse(fresh))
              /\ UNCHANGED fault
     \/ /\ \E site \in { "fetch", "arrayBuffer" } : Catch(r, site, "network")
        /\ UNCHANGED upstream
  /\ UNCHANGED << table, method, path, browser, queries, after, parser >>

\* The row looked up under the repository name.
CacheKey_Repository(named) == named.repository

\* Line 184: WHERE namespace = ${parsedImage.namespace}
CacheKey(named) == named.namespace

\* Lines 182-186: SELECT ... WHERE namespace = key LIMIT 1; NoRow when the table
\* holds no row of the key.
Lookup(key) == IF key \in DOMAIN store THEN store[key] ELSE NoRow

\* The cache-hit answer with the Content-Type fixed to image/png.
HitResponse_PngOnly(row) == Resp(200, row.content, "image/png", SWR)

\* Lines 197-204: the answer served from a row that holds content.
HitResponse(row) ==
  Resp(200, row.content,
       IF row.content_type = NULL THEN "image/png" ELSE row.content_type,
       SWR)

\* Lines 182-208: the SELECT of the namespace's row and the two cache-hit
\* branches.  row[1] is a Buffer when content is not NULL, which is truthy
\* whatever its length.
Select(r) ==
  /\ pc[r] = "select"
  /\ Query(r)
  /\ \/ LET row == Lookup(CacheKey(parsedImage(r))) IN
        /\ IF row.exists /\ row.url = NULL
           THEN Return(r, "ret_hitNeg", Resp(404, NULL, NULL, NULL))
           ELSE IF row.exists /\ row.content # NULL
           THEN Return(r, "ret_hitPos", HitResponse(row))
           ELSE Await(r, "launch") /\ UNCHANGED locals
        /\ UNCHANGED fault
     \/ Catch(r, "sql", "store")
  /\ UNCHANGED << table, method, path, browser, after, upstream, parser >>

\* Line 215: await chromium.launch()
Launch(r) ==
  /\ pc[r] = "launch"
  /\ \/ /\ browser' = [ browser EXCEPT ![r] = "open" ]
        /\ Await(r, "newPage")
        /\ UNCHANGED << locals, fault >>
     \/ /\ Catch(r, "launch", "crash")
        /\ UNCHANGED browser
  /\ UNCHANGED << table, method, path, queries, after, upstream, parser >>

\* Line 216: await browser.newPage()
NewPage(r) ==
  /\ pc[r] = "newPage"
  /\ \/ /\ Await(r, "goto")
        /\ UNCHANGED << locals, fault >>
     \/ Catch(r, "newPage", "crash")
  /\ UNCHANGED << table, method, path, browser, queries, after, upstream, parser >>

\* Lines 217-222 and 238-243: await page.goto(dockerHubURL) and the status test.
\* imageSrc = null and message = "Not found" are set on the way.
Navigate(r) ==
  /\ pc[r] = "goto"
  /\ \/ \E st \in GotoStatuses :
          /\ IF st = 200
             THEN /\ message' = [ message EXCEPT ![r] = "Not found" ]
                  /\ Await(r, "waitForSelector")
             ELSE /\ message' = [ message EXCEPT ![r] = "does not exist on Docker Hub" ]
                  /\ Await(r, "close")
          /\ UNCHANGED << imageSrc, asset, fault >>
     \/ \E kind \in { "crash", "network" } : Catch(r, "goto", kind)
  /\ UNCHANGED << table, method, path, browser, queries, after, upstream, parser >>

\* The element wait without the try of line 223 around it.
WaitForSelector_NoTry(r) ==
  /\ pc[r] = "waitForSelector"
  /\ \/ /\ Await(r, "getAttribute")
        /\ UNCHANGED << locals, fault >>
     \/ \E kind \in { "timeout", "crash" } : Catch(r, "waitForSelector", kind)
  /\ UNCHANGED << table, method, path, browser, queries, after, upstream, parser >>

\* Lines 223-227 and 232-237: await page.waitForSelector(..., { timeout: 5000 }).
\* The catch clause takes every exception: the TimeoutError of an element that
\* never appears, and any other fault of the browser.
WaitForSelector(r) ==
  /\ pc[r] = "waitForSelector"
  /\ \/ /\ Await(r, "getAttribute")
        /\ UNCHANGED << message, fault >>
     \/ \E kind \in { "timeout", "crash" } :
          /\ message' = [ message EXCEPT ![r] = "does not have an associated image" ]
          /\ fault' = [ fault EXCEPT ![r] = [ site |-> "waitForSelector", kind |-> kind ] ]
          /\ Await(r, "close")
  /\ UNCHANGED << table, method, path, browser, imageSrc, asset, queries, after, upstream, parser >>

\* Lines 228-237: imageSrc = await el.getAttribute("src"), inside the same try.
GetAttribute(r) ==
  /\ pc[r] = "getAttribute"
  /\ \/ \E src \in SrcValues :
          /\ imageSrc' = [ imageSrc EXCEPT ![r] = src ]
          /\ UNCHANGED << message, fault >>
     \/ /\ message' = [ message EXCEPT ![r] = "does not have an associated image" ]
        /\ fault' = [ fault EXCEPT ![r] = [ site |-> "getAttribute", kind |-> "crash" ] ]
        /\ UNCHANGED imageSrc
  /\ Await(r, "close")
  /\ UNCHANGED << table, method, path, browser, asset, queries, after, upstream, parser >>

\* !imageSrc: null and the empty string are falsy.
Falsy(src) == src = NULL \/ src = ""

\* Lines 245-247: await browser.close(), then the test of imageSrc.
Close(r) ==
  /\ pc[r] = "close"
  /\ \/ /\ browser' = [ browser EXCEPT ![r] = "closed" ]
        /\ Await(r, IF Falsy(imageSrc[r]) THEN "upsertNegative" ELSE "fetchAsset")
        /\ UNCHANGED << locals, fault >>
     \/ /\ Catch(r, "close", "crash")
        /\ UNCHANGED browser
  /\ UNCHANGED << table, method, path, queries, after, upstream, parser >>

\* The negative upsert with ON CONFLICT (namespace) DO NOTHING.
NegativeRow_DoNothing(row, t) ==
  IF row.exists
  THEN row
  ELSE [ exists |-> TRUE, url |-> NULL, content |-> NULL, content_type |-> NULL,
         updated_at |-> t ]

\* INSERT ... VALUES (ns, NULL, NULL, NULL) ON CONFLICT (namespace)
\* DO UPDATE SET url = NULL, executed at time t.  The inserted row takes
\* updated_at from the column default NOW(); the conflict update names url only.
NegativeRow(row, t) ==
  IF row.exists
  THEN [ row EXCEPT !.url = NULL ]
  ELSE [ exists |-> TRUE, url |-> NULL, content |-> NULL, content_type |-> NULL,
         updated_at |-> t ]

\* Lines 248-255: the negative upsert and the 404 answer.
UpsertNegative(r) ==
  /\ pc[r] = "upsertNegative"
  /\ Query(r)
  /\ \/ /\ store' = [ store EXCEPT ![Ns(r)] = NegativeRow(@, now) ]
        /\ now' = now + 1
        /\ Return(r, "ret_absent", Json(404, message[r]))
        /\ UNCHANGED fault
     \/ /\ Catch(r, "sql", "store")
        /\ UNCHANGED table
  /\ UNCHANGED << method, path, browser, after, upstream, parser >>

\* The branch of line 263 taken as a confirmed absence: the failed delivery
\* is written to the table as a negative row.
FetchAsset_PersistsFailure(r) ==
  /\ pc[r] = "fetchAsset"
  /\ store' = [ store EXCEPT ![Ns(r)] = NegativeRow(@, now) ]
  /\ now' = now + 1
  /\ Return(r, "ret_badGateway", Json(502, "failed to fetch logo"))
  /\ UNCHANGED << method, path, browser, fault, queries, after, upstream, parser >>

\* Lines 262-273: await fetch(imageSrc), the test of fresh.ok, the body and
\* the declared content type.
FetchAsset(r) ==
  /\ pc[r] = "fetchAsset"
  /\ \/ /\ Return(r, "ret_badGateway", Json(502, "failed to fetch logo"))
        /\ UNCHANGED fault
     \/ \E reply \in Replies :
          /\ asset' = [ asset EXCEPT ![r] =
                          [ buf |-> reply.body,
                            contentType |-> IF reply.header = NULL THEN "image/png"
                                            ELSE reply.header ] ]
          /\ Await(r, "upsertPositive")
          /\ UNCHANGED << imageSrc, message, fault >>
     \/ \E site \in { "fetch", "arrayBuffer" } : Catch(r, site, "network")
  /\ UNCHANGED << table, method, path, browser, queries, after, upstream, parser >>

\* INSERT ... VALUES (ns, imageSrc, buf, contentType) ON CONFLICT (namespace)
\* DO UPDATE SET url, content, content_type = excluded.*, updated_at = NOW(),
\* executed at time t.
PositiveRow(row, src, buf, contentType, t) ==
  [ exists |-> TRUE, url |-> src, content |-> buf, content_type |-> contentType,
    updated_at |-> t ]

\* Lines 276-299: the positive upsert and the 200 answer.
UpsertPositive(r) ==
  /\ pc[r] = "upsertPositive"
  /\ Query(r)
  /\ \/ /\ store' = [ store EXCEPT ![Ns(r)] =
                        PositiveRow(@, imageSrc[r], asset[r].buf, asset[r].contentType,
                                    now) ]
        /\ now' = now + 1
        /\ Return(r, "ret_stored",
                  Resp(200, asset[r].buf, asset[r].contentType, SWR))
        /\ UNCHANGED fault
     \/ /\ Catch(r, "sql", "store")
        /\ UNCHANGED table
  /\ UNCHANGED << method, path, browser, after, upstream, parser >>


\* Lines 4-19: parseDockerHubImage called on the serialized identifier.
Parse ==
  /\ ~parsed.called
  /\ parsed' = [ called |-> TRUE, result |-> parseDockerHubImage(Serialize(ident)) ]
  /\ UNCHANGED << table, method, path, pc, browser, locals, response, fault,
                  queries, after, upstream, ident >>

\* ---------------------------------------------------------- specifications

\* Spec: MaxReq requests of any method and path.
Next ==
  \E r \in 1..MaxReq :
    \/ \E m \in Methods, p \in Paths : Start(r, m, p)
    \/ Health(r)
    \/ LibFetch(r)
    \/ Select(r)
    \/ Launch(r)
    \/ NewPage(r)
    \/ Navigate(r)
    \/ WaitForSelector(r)
    \/ GetAttribute(r)
    \/ Close(r)
    \/ UpsertNegative(r)
    \/ FetchAsset(r)
    \/ UpsertPositive(r)

Spec == Init /\ [][Next]_vars

\* The awaited call request r is suspended at returns or raises.
Resume(r) ==
  \/ Health(r)
  \/ LibFetch(r)
  \/ Select(r)
  \/ Launch(r)
  \/ NewPage(r)
  \/ Navigate(r)
  \/ WaitForSelector(r)
  \/ GetAttribute(r)
  \/ Close(r)
  \/ UpsertNegative(r)
  \/ FetchAsset(r)
  \/ UpsertPositive(r)

\* SpecLive: Spec where every awaited call eventually returns or raises, and
\* the event loop, while a task is suspended at such a call, eventually resumes
\* one.
SpecLive == Init /\ [][Next]_vars /\ WF_vars(\E r \in 1..MaxReq : Resume(r))

\* SpecRace: MaxRace GET requests of images outside the official namespace.
NextRace ==
  \E r \in 1..MaxRace :
    \/ \E p \in RacePaths : Start(r, "GET", p)
    \/ Select(r)
    \/ Launch(r)
    \/ NewPage(r)
    \/ Navigate(r)
    \/ WaitForSelector(r)
    \/ GetAttribute(r)
    \/ Close(r)
    \/ UpsertNegative(r)
    \/ FetchAsset(r)
    \/ UpsertPositive(r)

SpecRace == Init /\ [][NextRace]_vars

\* SpecKeyed: MaxReq GET requests of two repositories of one namespace.
NextKeyed ==
  \E r \in 1..MaxReq :
    \/ \E p \in RacePaths : Start(r, "GET", p)
    \/ Select(r)
    \/ Launch(r)
    \/ NewPage(r)
    \/ Navigate(r)
    \/ WaitForSelector(r)
    \/ GetAttribute(r)
    \/ Close(r)
    \/ UpsertNegative(r)
    \/ FetchAsset(r)
    \/ UpsertPositive(r)

SpecKeyed == Init /\ [][NextKeyed]_vars

\* SpecParse: the parser applied to the serialized form of any valid
\* identifier of names up to MaxSegLen characters; the server stays idle.
InitParse ==
  /\ InitServer
  /\ ident \in Identifiers
  /\ parsed = NotParsed

NextParse == Parse

SpecParse == InitParse /\ [][NextParse]_vars

\* ------------------------------------------------------------------ claims

\* A request holds an acquisition from the launch of its browser to its return.
Acquiring(r) ==
  pc[r] \in { "newPage", "goto", "waitForSelector", "getAttribute", "close",
              "upsertNegative", "fetchAsset", "upsertPositive" }

\* C1: requests for one uncached namespace that arrive together cause one
\* resolver invocation: no two acquisitions of a namespace are in flight at
\* the same time.
C1_SingleAcquisition ==
  \A r, q \in Reqs :
    (r # q /\ Scoped(r) /\ Scoped(q) /\ Ns(r) = Ns(q))
      => ~(Acquiring(r) /\ Acquiring(q))

\* C2: every row of the table has content present if and only if url is
\* present.
C2_RecordWhole ==
  \A ns \in Namespaces :
    store[ns].exists => ((store[ns].content # NULL) <=> (store[ns].url # NULL))

\* Whether pathname p names an image of the official namespace: no namespace,
\* or "library".
RootPath(p) ==
  /\ Len(p) > 0
  /\ parseDockerHubImage(Image(p)).matched
  /\ parseDockerHubImage(Image(p)).namespace \in { NoNamespace, Library }

\* The requests that name the official namespace.
Root(r) == pc[r] # "idle" /\ RootPath(path[r])

\* C5: a request of the official namespace sends no statement to the store and
\* none of its steps changes the table, and the table never holds a row for
\* "library".
C5_RootBypassesStore ==
  /\ [](~store[Library].exists /\ \A r \in Reqs : Root(r) => queries[r] = 0)
  /\ [][ \A r \in Reqs :
           (pc'[r] # pc[r] /\ RootPath(path'[r])) => store' = store ]_vars

\* C5's case: a "library" request was answered from the catalog while the
\* table holds a row another request wrote.
C5_Witness ==
  \E r \in Reqs :
    /\ Root(r)
    /\ parsedImage(r).namespace = Library
    /\ pc[r] = "ret_official"
    /\ \E ns \in Namespaces : store[ns].exists

\* C6: a request that has returned has closed the browser it launched.
C6_BrowserReleased ==
  \A r \in Reqs : Done(r) => browser[r] # "open"

\* C3: a request that arrives after a positive resolution of its namespace has
\* returned is answered 200 from the table, without a browser launch.
C3_PositiveSticks ==
  \A r \in Reqs :
    (Done(r) /\ "positive" \in after[r] /\ fault[r] = NoFault)
      => /\ pc[r] = "ret_hitPos"
         /\ response[r].status = 200
         /\ browser[r] = "none"

\* C4: a request that arrives after a negative resolution of its namespace has
\* returned is answered 404 from the table, without a browser launch.
C4_NegativeSticks ==
  \A r \in Reqs :
    (Done(r) /\ "negative" \in after[r] /\ fault[r] = NoFault)
      => /\ pc[r] = "ret_hitNeg"
         /\ response[r].status = 404
         /\ browser[r] = "none"

\* C7: the step in which a request is answered 502 answers with the JSON
\* message and leaves the table as it was; the request has sent the store its
\* SELECT and nothing else.
C7_BadGatewayPersistsNothing ==
  [][ \A r \in Reqs :
        (response[r].status # 502 /\ response'[r].status = 502)
          => /\ store' = store
             /\ response'[r] = Json(502, "failed to fetch logo")
             /\ queries'[r] = 1 ]_vars

\* C7's case: a request was answered 502, the table holds no row for its
\* namespace, and a request that arrived afterwards launched a browser.
C7_Witness ==
  \E r, q \in Reqs :
    /\ pc[r] = "ret_badGateway"
    /\ response[r].status = 502
    /\ Scoped(q) /\ Ns(q) = Ns(r)
    /\ "undelivered" \in after[q]
    /\ browser[q] # "none"
    /\ ~store[Ns(r)].exists

\* C8: a request in which the browser crashed or the store failed is answered
\* 500 and writes no negative row.
C8_FaultNeverPersisted ==
  \A r \in Reqs :
    (Done(r) /\ fault[r].kind \in { "crash", "store" })
      => /\ response[r].status = 500
         /\ pc[r] # "ret_absent"

RenderSites == { "launch", "newPage", "goto", "waitForSelector", "getAttribute" }

C10_TransientIsBadGateway ==
  \A r \in Reqs :
    (Done(r) /\ fault[r].kind = "network" /\ fault[r].site \in { "goto", "fetch", "arrayBuffer" }
       /\ Scoped(r))
      => /\ response[r].status \in { 502, 504 }
         /\ queries[r] = 1

\* A pathname that is not /health and does not name an image.
Malformed(p) == p # HealthPath /\ ~parseDockerHubImage(Image(p)).matched

\* C11: a GET request whose path is a malformed identifier is answered 400
\* with a JSON message.
C11_MalformedIsBadRequest ==
  \A r \in Reqs :
    (Done(r) /\ method[r] = "GET" /\ Malformed(path[r]))
      => /\ response[r].status = 400
         /\ response[r].content_type = "application/json"

\* Request r has seen its namespace absent from the catalog: the page answered
\* with a status other than 200, or the logo element did not appear before the
\* timeout of the element wait.  The request is past the render and has its
\* browser to close and its record to write.
AbsenceObserved(r) ==
  /\ pc[r] \in { "close", "upsertNegative" }
  /\ \/ message[r] = "does not exist on Docker Hub"
     \/ fault[r] = [ site |-> "waitForSelector", kind |-> "timeout" ]

\* C12: a request of a namespace outside the official one, with no record,
\* whose catalog page answers with a non-200 status or whose logo element times
\* out, goes on to the negative upsert and returns 404 with the JSON message;
\* at its return the table holds a row of the namespace with url NULL.  (The
\* close of the browser and the write are taken to return; a fault of either
\* is the 500 of the catch clause.)
C12_AbsentIsRecorded ==
  [][ \A r \in Reqs :
        ( /\ AbsenceObserved(r)
          /\ pc'[r] # pc[r]
          /\ fault'[r].site \notin { "close", "sql" } )
          => \/ /\ pc[r] = "close"
                /\ pc'[r] = "upsertNegative"
                /\ message'[r] = message[r]
                /\ store' = store
             \/ /\ pc[r] = "upsertNegative"
                /\ pc'[r] = "ret_absent"
                /\ response'[r] = Json(404, message[r])
                /\ store'[Ns(r)].exists
                /\ store'[Ns(r)].url = NULL ]_vars

\* C12's case: one request answered 404 after a non-200 catalog page and
\* another after the timeout of the element wait, with the negative row in the
\* table.
C12_Witness ==
  \E r, q \in Reqs :
    /\ pc[r] = "ret_absent"
    /\ response[r] = Json(404, "does not exist on Docker Hub")
    /\ fault[r] = NoFault
    /\ pc[q] = "ret_absent"
    /\ response[q] = Json(404, "does not have an associated image")
    /\ fault[q] = [ site |-> "waitForSelector", kind |-> "timeout" ]
    /\ Ns(q) = Ns(r)
    /\ store[Ns(r)].exists
    /\ store[Ns(r)].url = NULL

\* C13: every write to a row of the icons table, positive or negative, insert
\* or conflict update, sets the row's updated_at to the time of that write.
C13_WriteRefreshesUpdatedAt ==
  [][ \A r \in Reqs :
        (pc[r] \in { "upsertNegative", "upsertPositive" }
           /\ pc'[r] \in { "ret_absent", "ret_stored" })
          => store'[Ns(r)].updated_at = now ]_vars

\* Request r is the only request so far to have written the row of its
\* namespace, so a later read of the row reads what r wrote.
OnlyWriter(r) ==
  \A w \in Reqs \ { r } :
    ~( /\ pc[w] \in { "ret_stored", "ret_absent" }
       /\ Ns(w) = Ns(r) )

\* C14: a fresh positive resolution of a namespace and a following cache-hit
\* request of the same namespace return the same response: status 200, the same
\* bytes, the Content-Type the asset fetch declared (image/png when it declared
\* none) and the stale-while-revalidate Cache-Control; the row written holds a
\* url and content that are not NULL.
C14_FreshAndHitAgree ==
  \A r, q \in Reqs :
    ( /\ pc[r] = "ret_stored"
      /\ pc[q] = "ret_hitPos"
      /\ Ns(q) = Ns(r)
      /\ OnlyWriter(r) )
      => /\ response[q] = response[r]
         /\ response[r].status = 200
         /\ \E reply \in Replies :
              /\ response[r].body = reply.body
              /\ response[r].content_type =
                   (IF reply.header = NULL THEN "image/png" ELSE reply.header)
         /\ response[r].cache_control =
              "public, max-age=86400, stale-while-revalidate=604800"
         /\ store[Ns(r)].url # NULL
         /\ store[Ns(r)].content = response[r].body
         /\ store[Ns(r)].content # NULL

\* C14's case: a fresh resolution whose asset declared a content type of its
\* own, followed by a request served from the row it wrote.
C14_Witness ==
  \E r, q \in Reqs :
    /\ pc[r] = "ret_stored"
    /\ pc[q] = "ret_hitPos"
    /\ Ns(q) = Ns(r)
    /\ "positive" \in after[q]
    /\ response[r].content_type = "image/svg+xml"

\* C15: every request whose method is not GET is answered 405 with Allow: GET,
\* whatever its path; it sends no statement to the store, leaves the table as
\* it is, and never stands at an upstream call (the endpoint of the official
\* logos, the browser, the asset fetch).
C15_NonGetIsRefused ==
  /\ [] \A r \in Reqs :
         (pc[r] # "idle" /\ method[r] # "GET")
           => /\ pc[r] = "ret_405"
              /\ response[r].status = 405
              /\ response[r].allow = "GET"
              /\ queries[r] = 0
              /\ browser[r] = "none"
              /\ upstream[r] = NoReply
              /\ fault[r] = NoFault
  /\ [][ \A r \in Reqs :
           (pc[r] = "idle" /\ pc'[r] # "idle" /\ method'[r] # "GET")
             => store' = store ]_vars

\* C15's case: a POST of /health and a POST of a valid image, both refused.
C15_Witness ==
  \E r, q \in Reqs :
    /\ method[r] = "POST" /\ path[r] = HealthPath /\ pc[r] = "ret_405"
    /\ method[q] = "POST" /\ pc[q] = "ret_405"
    /\ parseDockerHubImage(Image(path[q])).matched
    /\ ~IsOfficial(parseDockerHubImage(Image(path[q])))

\* C16: a GET of an image of the root namespace (no namespace, or library)
\* whose upstream fetch completes is answered 200 with the bytes the endpoint
\* of the official logos returned and Cache-Control public, max-age=86400,
\* whatever the status of the upstream reply.
C16_OfficialIsAlways200 ==
  \A r \in Reqs :
    ( /\ pc[r] # "idle" /\ method[r] = "GET" /\ RootPath(path[r])
      /\ upstream[r] # NoReply )
      => /\ pc[r] = "ret_official"
         /\ response[r].status = 200
         /\ response[r].body = upstream[r].body
         /\ response[r].cache_control = "public, max-age=86400"

\* C16's case: the endpoint answered an image without a namespace 404 and an
\* image of library 200, and both requests were answered.
C16_Witness ==
  \E r, q \in Reqs :
    /\ pc[r] = "ret_official" /\ upstream[r].status = 404
    /\ parsedImage(r).namespace = NoNamespace
    /\ pc[q] = "ret_official" /\ upstream[q].status = 200
    /\ parsedImage(q).namespace = Library

\* C17: for every valid identifier, parsing its serialized form returns the
\* same namespace (null when it has none) and the same repository.
C17_ParseRoundTrip ==
  parsed.called
    => parsed.result = [ matched |-> TRUE,
                         namespace |-> ident.namespace,
                         repository |-> ident.repository ]

\* C17's case: an identifier with a namespace, both names with a separator in
\* them, has been parsed.
C17_Witness ==
  /\ parsed.called
  /\ ident.namespace = << "a", "-", "0" >>
  /\ ident.repository = << "0", "_", "a" >>

\* C18: when every external call eventually returns or raises, every request
\* eventually receives exactly one response: a request that has arrived
\* reaches a return site whatever the other requests do or suffer, a request
\* holds a response exactly when it has returned, and a returned request's
\* response never changes.
C18_EveryRequestAnswered ==
  /\ \A r \in 1..MaxReq : (pc[r] # "idle") ~> Done(r)
  /\ [] \A r \in Reqs : Done(r) <=> response[r] # NoResponse
  /\ [][ \A r \in Reqs :
           Done(r) => (pc'[r] = pc[r] /\ response'[r] = response[r]) ]_vars

\* C18's case: the browser of one request crashed during its acquisition, and
\* a request of the same namespace that was in flight with it, or came after
\* it, has been answered with the logo.
C18_Witness ==
  \E r, q \in Reqs :
    /\ pc[r] = "ret_error"
    /\ fault[r].kind = "crash"
    /\ Scoped(q)
    /\ Ns(q) = Ns(r)
    /\ pc[q] = "ret_stored"

\* Request q arrived after request w, the only writer of the row of their
\* namespace, had returned from its write; kind names the write.
ArrivedAfterWrite(q, w, kind) ==
  /\ q # w
  /\ pc[w] = (IF kind = "positive" THEN "ret_stored" ELSE "ret_absent")
  /\ kind \in after[q]
  /\ Scoped(q)
  /\ Ns(q) = Ns(w)
  /\ OnlyWriter(w)

\* C19: the answer served from the cache depends on the namespace only: once a
\* request has written the row of a namespace, every later request of the
\* namespace, whatever repository it names, is answered from that row (the
\* writer's bytes and headers after a positive row, 404 after a negative row)
\* and does not invoke the resolver.
C19_KeyedByNamespace ==
  \A w, q \in Reqs :
    /\ ArrivedAfterWrite(q, w, "positive")
         => /\ pc[q] \in { "select", "ret_hitPos", "ret_error" }
            /\ browser[q] = "none"
            /\ pc[q] = "ret_hitPos" => response[q] = response[w]
            /\ pc[q] = "ret_error" => fault[q].site = "sql"
    /\ ArrivedAfterWrite(q, w, "negative")
         => /\ pc[q] \in { "select", "ret_hitNeg", "ret_error" }
            /\ browser[q] = "none"
            /\ pc[q] = "ret_hitNeg" => response[q].status = 404
            /\ pc[q] = "ret_error" => fault[q].site = "sql"

\* C19's case: acme/widget was resolved and stored, and a later request of
\* acme/other was answered with widget's bytes.
C19_Witness ==
  \E w, q \in Reqs :
    /\ ArrivedAfterWrite(q, w, "positive")
    /\ parsedImage(w).repository = << "w","i","d","g","e","t" >>
    /\ parsedImage(q).repository = << "o","t","h","e","r" >>
    /\ pc[q] = "ret_hitPos"
    /\ response[q].body = response[w].body

====
